---------------------------- MODULE Spec2Model ----------------------------
(***************************************************************************)
(* Rollback mitigation of go-dcp (couchbase/rollback_mitigation.go).       *)
(*                                                                         *)
(* The model follows the goroutines of the source:                         *)
(*   "main"   the caller of Start() and Stop();                            *)
(*   "watch"  the config-watch goroutine spawned by Start();               *)
(*   one Observer goroutine per `go r.startObserve(groupID)`;              *)
(*   one in-flight record per ObserveVb request, whose callback runs on    *)
(*   the cluster client's goroutines.                                      *)
(* A step is a maximal run of statements of one goroutine that reads or    *)
(* writes shared fields at a single point; blocking channel operations     *)
(* are steps of their own.  Go indices are kept: replica index 0 is the    *)
(* active copy, so a replica vector is a function on 0..numReplicas.       *)
(***************************************************************************)
EXTENDS Integers, Sequences, FiniteSets, Bags, TLC

(***************************************************************************)
(* Bounds of the model.                                                    *)
(***************************************************************************)
\* ObserveVb requests whose callback has not finished yet.
MaxInFlight == 1
\* Replicas of a vBucket when getMinSeqNo is taken on its own.
MinMaxReplicas == 2
\* Results delivered to callbacks in the scenario of one generation.
MaxDeliveries == 3
\* Replicas of a vBucket in the topologies of the resizing specification.
TopoMaxReplicas == 1
\* Calls of Ping by the health check of the orchestrator.
MaxPings == 3

(***************************************************************************)
(* Program constants.                                                      *)
(***************************************************************************)
\* make(chan struct{}, 1) for observeCloseCh and observeCloseDoneCh.
ChanCap == 1
\* make(chan ..., 1) for cancelCh, stopCh and healCheckFailedCh of dcp.
SignalChanCap == 1

(***************************************************************************)
(* Input domains.                                                          *)
(***************************************************************************)
\* vbIds given to NewRollbackMitigation.
vbIds == {42}
\* What VbucketToServer answers for one (vbID, replicaIdx).
RouteOk == "server"
RouteInvalid == "ErrInvalidReplica"
RouteNegative == "negativeIndex"
RouteError == "otherError"
\* vbUUIDs and persisted sequence numbers the cluster may report.
VbUUIDs == {1}
SeqNos == {1}

NoSnapshot == [epoch |-> 0, revID |-> 0, numReplicas |-> 0, route |-> <<>>]

Slots(n) == vbIds \X (0..n)

Snapshot(epoch, revID, n, table) ==
    [epoch |-> epoch, revID |-> revID, numReplicas |-> n, route |-> table]

\* Config snapshots the cluster client may hand out.  Only the two of epoch 2
\* can be installed one after the other: (1,5) is older than both, and the
\* reconfigure to (3,0) fails, so a run sees at most two generations.
Topologies ==
    { Snapshot(1, 5, 1, [s \in Slots(1) |-> IF s[2] = 0 THEN RouteNegative ELSE RouteOk]),
      Snapshot(2, 4, 1, [s \in Slots(1) |-> RouteOk]),
      Snapshot(2, 5, 1, [s \in Slots(1) |-> IF s[2] = 1 THEN RouteInvalid ELSE RouteOk]),
      Snapshot(3, 0, 1, [s \in Slots(1) |-> IF s[2] = 1 THEN RouteError ELSE RouteOk]) }

\* The snapshots WaitForConfigSnapshot may deliver first.
FirstTopologies == { t \in Topologies : t.epoch >= 2 }

(***************************************************************************)
(* Pure functions of the source.                                           *)
(***************************************************************************)
\* &vbUUIDAndSeqNo{}: the zero value of a slot.
ZeroSlot == [vbUUID |-> 0, seqNo |-> 0, absent |-> FALSE]

\* len(replicas)
Length(replicas) == Cardinality(DOMAIN replicas)

\* isConfigSnapshotNewerThan comparing the revision id only.
isConfigSnapshotNewerThanRevOnly(old, new) == new.revID > old.revID

\* getRevEpochAndID + isConfigSnapshotNewerThan, branch by branch.
isConfigSnapshotNewerThan(old, new) ==
    IF new.epoch < old.epoch THEN FALSE
    ELSE IF new.epoch = old.epoch
         THEN IF new.revID = old.revID THEN FALSE
              ELSE IF new.revID < old.revID THEN FALSE
              ELSE TRUE
         ELSE TRUE

\* The first loop taking slot 0 whether absent or not.
StartIndexFirst(replicas) == IF DOMAIN replicas = {} THEN -1 ELSE 0

\* getMinSeqNo, first loop: the first slot that is not absent, or -1.
StartIndex(replicas) ==
    IF \E i \in DOMAIN replicas : ~replicas[i].absent
    THEN CHOOSE i \in DOMAIN replicas :
            /\ ~replicas[i].absent
            /\ \A j \in DOMAIN replicas : j < i => replicas[j].absent
    ELSE -1

\* The second loop skipping a slot of another vbUUID instead of returning 0.
RECURSIVE MinLoopSkipMismatch(_, _, _, _)
MinLoopSkipMismatch(replicas, idx, vbUUID, minSeqNo) ==
    IF idx >= Length(replicas) THEN minSeqNo
    ELSE IF replicas[idx].absent \/ vbUUID # replicas[idx].vbUUID
         THEN MinLoopSkipMismatch(replicas, idx + 1, vbUUID, minSeqNo)
    ELSE MinLoopSkipMismatch(replicas, idx + 1, vbUUID,
                 IF minSeqNo > replicas[idx].seqNo THEN replicas[idx].seqNo ELSE minSeqNo)

\* The second loop with the comparison the wrong way round.
RECURSIVE MinLoopMax(_, _, _, _)
MinLoopMax(replicas, idx, vbUUID, minSeqNo) ==
    IF idx >= Length(replicas) THEN minSeqNo
    ELSE IF replicas[idx].absent THEN MinLoopMax(replicas, idx + 1, vbUUID, minSeqNo)
    ELSE IF vbUUID # replicas[idx].vbUUID THEN 0
    ELSE MinLoopMax(replicas, idx + 1, vbUUID,
                 IF minSeqNo < replicas[idx].seqNo THEN replicas[idx].seqNo ELSE minSeqNo)

\* getMinSeqNo, second loop, from slot idx on.
RECURSIVE MinLoop(_, _, _, _)
MinLoop(replicas, idx, vbUUID, minSeqNo) ==
    IF idx >= Length(replicas) THEN minSeqNo
    ELSE IF replicas[idx].absent THEN MinLoop(replicas, idx + 1, vbUUID, minSeqNo)
    ELSE IF vbUUID # replicas[idx].vbUUID THEN 0
    ELSE MinLoop(replicas, idx + 1, vbUUID,
                 IF minSeqNo > replicas[idx].seqNo THEN replicas[idx].seqNo ELSE minSeqNo)

\* getMinSeqNo taking a slot no callback has written yet for absent.
MinSeqNoOfSkipUnset(replicas) ==
    LET seen == [i \in DOMAIN replicas |->
                    [replicas[i] EXCEPT !.absent = @ \/ replicas[i].vbUUID = 0]]
        startIndex == StartIndex(seen)
    IN  IF startIndex = -1 THEN 0
        ELSE MinLoop(seen, startIndex + 1, seen[startIndex].vbUUID, seen[startIndex].seqNo)

\* getMinSeqNo on the vector r.persistedSeqNos.Load(vbID) returned.
MinSeqNoOf(replicas) ==
    LET startIndex == StartIndex(replicas)
    IN  IF startIndex = -1 THEN 0
        ELSE MinLoop(replicas, startIndex + 1,
                     replicas[startIndex].vbUUID, replicas[startIndex].seqNo)

\* reset() without the slot of the active copy.
resetReplicasOnly(snapshot) ==
    [vb \in vbIds |-> [j \in 0..(snapshot.numReplicas - 1) |-> ZeroSlot]]

\* reset(): a fresh map, numReplicas+1 zero slots per vbID.
reset(snapshot) ==
    [vb \in vbIds |-> [j \in 0..snapshot.numReplicas |-> ZeroSlot]]

\* markAbsentInstances() without the test of the server index.
markAbsentInstancesInvalidOnly(snapshot, seqNos) ==
    [vb \in vbIds |->
        [j \in DOMAIN seqNos[vb] |->
            IF snapshot.route[<<vb, j>>] = RouteInvalid
            THEN [seqNos[vb][j] EXCEPT !.absent = TRUE]
            ELSE seqNos[vb][j]]]

\* markAbsentInstances(): ErrInvalidReplica or a negative server index marks
\* the slot absent.
markAbsentInstances(snapshot, seqNos) ==
    [vb \in vbIds |->
        [j \in DOMAIN seqNos[vb] |->
            IF snapshot.route[<<vb, j>>] \in {RouteInvalid, RouteNegative}
            THEN [seqNos[vb][j] EXCEPT !.absent = TRUE]
            ELSE seqNos[vb][j]]]

\* markAbsentInstances() returns an error: VbucketToServer failed otherwise.
RouteFails(snapshot) ==
    \E s \in DOMAIN snapshot.route : snapshot.route[s] = RouteError

(***************************************************************************)
(* The orchestrator of dcp.go.                                             *)
(***************************************************************************)
\* newDcp: the three signal channels are made with capacity 1; the ticker is
\* nil; enabled is config.HealthCheck.Enabled.  start and health are the
\* positions of Start() and of the health-check goroutine; pings records what
\* the calls of Ping returned (TRUE: no error), signals counts the sends on
\* healCheckFailedCh.
newDcp(enabled) ==
    [enabled |-> enabled, healthCheckTicker |-> "nil", tick |-> 0,
     healCheckFailedCh |-> 0, stopCh |-> 0, cancelCh |-> 0,
     start |-> "new", health |-> "none", closed |-> FALSE,
     pings |-> <<>>, signals |-> 0]

\* No orchestrator: the rollback mitigation run on its own.
NoDcp == <<>>

(***************************************************************************)
(* State: the fields of rollbackMitigation and the goroutines.             *)
(***************************************************************************)
VARIABLES
    configSnapshot,      \* r.configSnapshot (NoSnapshot: nil)
    persistedSeqNos,     \* r.persistedSeqNos: vbID -> replica vector
    mapAlloc,            \* which allocation r.persistedSeqNos points to
    vbUUIDMap,           \* r.vbUUIDMap: vbID -> expected vbUUID (0: no entry)
    configWatchTimer,    \* r.configWatchTimer: "nil", "active" or "stopped"
    observeTimer,        \* r.observeTimer: 0 (nil) or an index of tickers
    tickers,             \* the tickers startObserve created, "active" or "stopped"
    observeCloseCh,      \* number of signals buffered in r.observeCloseCh
    observeCloseDoneCh,  \* number of signals buffered in r.observeCloseDoneCh
    activeGroupID,       \* r.activeGroupID
    closed,              \* r.closed
    pc,                  \* position of the "main" and the "watch" goroutine
    observers,           \* the startObserve goroutines, in spawn order
    inflight,            \* bag of ObserveVb requests and running callbacks
    lastEvent,           \* the last PersistSeqNo published on the bus
    panicked,            \* a goroutine panicked: the process is gone
    last,                \* history: the last step, if it leaves no other trace
    delivered,           \* history: the results the callbacks were called with,
                         \*   and how many events were published before
    published,           \* history: the events published on the bus
    recording,           \* whether delivered and published are kept
    branch,              \* history: per vbID, the vbUUID a callback stored last in
                         \*   vbUUIDMap and the generation of that callback
    dcp                  \* the orchestrator of dcp.go: its channels, its health-check
                         \*   ticker, and the positions of Start and of the
                         \*   health-check goroutine

vars == <<configSnapshot, persistedSeqNos, mapAlloc, vbUUIDMap, configWatchTimer,
          observeTimer, tickers, observeCloseCh, observeCloseDoneCh, activeGroupID,
          closed, pc, observers, inflight, lastEvent, panicked, last,
          delivered, published, recording, branch, dcp>>

history == <<delivered, published, recording, branch>>

rmFields == <<configSnapshot, persistedSeqNos, mapAlloc, activeGroupID>>
chans == <<observeCloseCh, observeCloseDoneCh>>
data == <<vbUUIDMap, inflight, lastEvent>>

\* History is kept of the steps that leave no other trace.
Quiet == [act |-> "", arg |-> <<>>]

NoEvent == [vbID |-> 0, seqNo |-> 0]

\* No callback has stored a vbUUID yet.
NoBranch == [vb \in vbIds |-> [groupID |-> 0, vbUUID |-> 0]]

\* NewRollbackMitigation: every field but the two channels is the zero value.
Constructed ==
    /\ configSnapshot = NoSnapshot
    /\ persistedSeqNos = [vb \in vbIds |-> <<>>]
    /\ mapAlloc = 0
    /\ vbUUIDMap = [vb \in vbIds |-> 0]
    /\ configWatchTimer = "nil"
    /\ observeTimer = 0
    /\ tickers = <<>>
    /\ observeCloseCh = 0
    /\ observeCloseDoneCh = 0
    /\ activeGroupID = 0
    /\ closed = FALSE
    /\ pc = [main |-> "new", watch |-> "none"]
    /\ observers = <<>>
    /\ inflight = EmptyBag
    /\ lastEvent = NoEvent
    /\ panicked = FALSE
    /\ last = Quiet
    /\ delivered = <<>>
    /\ published = <<>>
    /\ branch = NoBranch

Init == Constructed /\ recording = FALSE /\ dcp = NoDcp

(***************************************************************************)
(* Start(), up to the first reconfigure.                                   *)
(***************************************************************************)
\* Start spawning the config-watch goroutine before its own reconfigure.
WaitFirstConfigThenWatch(snapshot) ==
    /\ ~panicked
    /\ pc.main = "new"
    /\ configSnapshot' = snapshot
    /\ pc' = [main |-> "reconfigure", watch |-> "init"]
    /\ last' = Quiet
    /\ UNCHANGED history
    /\ UNCHANGED dcp
    /\ UNCHANGED <<persistedSeqNos, mapAlloc, activeGroupID, configWatchTimer,
                   observeTimer, tickers, chans, closed, observers,
                   data, panicked>>

\* waitFirstConfig(): the callback stores result.Snapshot.
WaitFirstConfig(snapshot) ==
    /\ ~panicked
    /\ pc.main = "new"
    /\ configSnapshot' = snapshot
    /\ pc' = [pc EXCEPT !.main = "reconfigure"]
    /\ last' = Quiet
    /\ UNCHANGED history
    /\ UNCHANGED dcp
    /\ UNCHANGED <<persistedSeqNos, mapAlloc, activeGroupID, configWatchTimer,
                   observeTimer, tickers, chans, closed, observers,
                   data, panicked>>

\* waitFirstConfig() returns an error: Start panics.
WaitFirstConfigFails ==
    /\ ~panicked
    /\ pc.main = "new"
    /\ panicked' = TRUE
    /\ last' = Quiet
    /\ UNCHANGED history
    /\ UNCHANGED dcp
    /\ UNCHANGED <<rmFields, configWatchTimer, observeTimer, tickers, chans,
                   closed, pc, observers, data>>

(***************************************************************************)
(* reconfigure(), run by Start on "main" and by configWatch on "watch".    *)
(***************************************************************************)
\* if r.observeTimer != nil { r.observeTimer.Stop() ...
ReconfigureCheckTimer(self) ==
    /\ ~panicked
    /\ pc[self] = "reconfigure"
    /\ IF observeTimer = 0
       THEN /\ pc' = [pc EXCEPT ![self] = "swap"]
            /\ UNCHANGED tickers
       ELSE /\ tickers' = [tickers EXCEPT ![observeTimer] = "stopped"]
            /\ pc' = [pc EXCEPT ![self] = "sendClose"]
    /\ last' = Quiet
    /\ UNCHANGED history
    /\ UNCHANGED dcp
    /\ UNCHANGED <<rmFields, configWatchTimer, observeTimer, chans, closed,
                   observers, data, panicked>>

\* r.observeCloseCh <- struct{}{}
ReconfigureSendClose(self) ==
    /\ ~panicked
    /\ pc[self] = "sendClose"
    /\ observeCloseCh < ChanCap
    /\ observeCloseCh' = observeCloseCh + 1
    /\ pc' = [pc EXCEPT ![self] = "recvDone"]
    /\ last' = Quiet
    /\ UNCHANGED history
    /\ UNCHANGED dcp
    /\ UNCHANGED <<rmFields, configWatchTimer, observeTimer, tickers,
                   observeCloseDoneCh, closed, observers, data, panicked>>

\* <-r.observeCloseDoneCh
ReconfigureRecvDone(self) ==
    /\ ~panicked
    /\ pc[self] = "recvDone"
    /\ observeCloseDoneCh > 0
    /\ observeCloseDoneCh' = observeCloseDoneCh - 1
    /\ pc' = [pc EXCEPT ![self] = "swap"]
    /\ last' = Quiet
    /\ UNCHANGED history
    /\ UNCHANGED dcp
    /\ UNCHANGED <<rmFields, configWatchTimer, observeTimer, tickers,
                   observeCloseCh, closed, observers, data, panicked>>

\* A startObserve goroutine that has not run yet.
NewObserver(groupID) ==
    [groupID |-> groupID, pc |-> "init", timer |-> 0, alloc |-> 0,
     vbID |-> 0, idx |-> 0, todo |-> {}]

\* Where the goroutine goes on when reconfigure returns: Start spawns the
\* config-watch goroutine and returns, configWatch returns to its loop.
AfterReconfigure(self) ==
    IF self = "main" THEN [pc EXCEPT !.main = "started", !.watch = "init"]
    ELSE [pc EXCEPT !.watch = "wait"]

\* reconfigure without the increment.
NextGroupIDSame(groupID) == groupID

\* r.activeGroupID++
NextGroupID(groupID) == groupID + 1

\* r.activeGroupID++; r.reset(); r.markAbsentInstances(); go r.startObserve(...)
ReconfigureSwap(self) ==
    /\ ~panicked
    /\ pc[self] = "swap"
    /\ ~RouteFails(configSnapshot)
    /\ activeGroupID' = NextGroupID(activeGroupID)
    /\ persistedSeqNos' = markAbsentInstances(configSnapshot, reset(configSnapshot))
    /\ mapAlloc' = mapAlloc + 1
    /\ observers' = Append(observers, NewObserver(activeGroupID'))
    /\ pc' = AfterReconfigure(self)
    /\ last' = Quiet
    /\ UNCHANGED history
    /\ UNCHANGED dcp
    /\ UNCHANGED <<configSnapshot, configWatchTimer, observeTimer, tickers, chans,
                   closed, data, panicked>>

\* markAbsentInstances() returns an error: reconfigure panics.
ReconfigurePanic(self) ==
    /\ ~panicked
    /\ pc[self] = "swap"
    /\ RouteFails(configSnapshot)
    /\ activeGroupID' = NextGroupID(activeGroupID)
    /\ persistedSeqNos' = reset(configSnapshot)
    /\ mapAlloc' = mapAlloc + 1
    /\ pc' = [pc EXCEPT ![self] = "panic"]
    /\ panicked' = TRUE
    /\ last' = Quiet
    /\ UNCHANGED history
    /\ UNCHANGED dcp
    /\ UNCHANGED <<configSnapshot, configWatchTimer, observeTimer, tickers, chans,
                   closed, observers, data>>

(***************************************************************************)
(* The config-watch goroutine of Start().                                  *)
(***************************************************************************)
\* r.configWatchTimer = time.NewTicker(...)
WatchNewTicker ==
    /\ ~panicked
    /\ pc.watch = "init"
    /\ configWatchTimer' = "active"
    /\ pc' = [pc EXCEPT !.watch = "wait"]
    /\ last' = Quiet
    /\ UNCHANGED history
    /\ UNCHANGED dcp
    /\ UNCHANGED <<rmFields, observeTimer, tickers, chans, closed, observers, data, panicked>>

\* The condition of configWatch() on what GetConfigSnapshot returned.
ShouldReconfigure(err, snapshot) ==
    ~err /\ (configSnapshot = NoSnapshot \/ isConfigSnapshotNewerThan(configSnapshot, snapshot))

\* One tick of the ticker: configWatch() up to the call of reconfigure.
\* A stopped ticker delivers no tick.
configWatch(err, snapshot) ==
    /\ ~panicked
    /\ pc.watch = "wait"
    /\ configWatchTimer = "active"
    /\ IF ShouldReconfigure(err, snapshot)
       THEN /\ configSnapshot' = snapshot
            /\ pc' = [pc EXCEPT !.watch = "reconfigure"]
       ELSE UNCHANGED <<configSnapshot, pc>>
    /\ last' = [act |-> "configWatch",
                arg |-> IF err THEN <<>> ELSE <<snapshot.epoch, snapshot.revID>>]
    /\ UNCHANGED history
    /\ UNCHANGED dcp
    /\ UNCHANGED <<persistedSeqNos, mapAlloc, activeGroupID, configWatchTimer,
                   observeTimer, tickers, chans, closed, observers,
                   data, panicked>>

(***************************************************************************)
(* Stop(), called by the caller after Start() has returned.                *)
(***************************************************************************)
\* if r.configWatchTimer != nil { r.configWatchTimer.Stop() }
StopConfigWatchTimer == IF configWatchTimer = "nil" THEN "nil" ELSE "stopped"

\* r.closed = true; if r.observeTimer != nil { r.observeTimer.Stop() ...
\* With no observe timer Stop runs to its end.
StopBegin ==
    /\ ~panicked
    /\ pc.main = "started"
    /\ closed' = TRUE
    /\ IF observeTimer = 0
       THEN /\ configWatchTimer' = StopConfigWatchTimer
            /\ pc' = [pc EXCEPT !.main = "stopped"]
            /\ UNCHANGED tickers
       ELSE /\ tickers' = [tickers EXCEPT ![observeTimer] = "stopped"]
            /\ pc' = [pc EXCEPT !.main = "stopSendClose"]
            /\ UNCHANGED configWatchTimer
    /\ last' = Quiet
    /\ UNCHANGED history
    /\ UNCHANGED dcp
    /\ UNCHANGED <<rmFields, observeTimer, chans, observers, data, panicked>>

\* r.observeCloseCh <- struct{}{}
StopSendClose ==
    /\ ~panicked
    /\ pc.main = "stopSendClose"
    /\ observeCloseCh < ChanCap
    /\ observeCloseCh' = observeCloseCh + 1
    /\ pc' = [pc EXCEPT !.main = "stopRecvDone"]
    /\ last' = Quiet
    /\ UNCHANGED history
    /\ UNCHANGED dcp
    /\ UNCHANGED <<rmFields, configWatchTimer, observeTimer, tickers,
                   observeCloseDoneCh, closed, observers, data, panicked>>

\* <-r.observeCloseDoneCh, then the config-watch timer, then Stop returns.
StopRecvDone ==
    /\ ~panicked
    /\ pc.main = "stopRecvDone"
    /\ observeCloseDoneCh > 0
    /\ observeCloseDoneCh' = observeCloseDoneCh - 1
    /\ configWatchTimer' = StopConfigWatchTimer
    /\ pc' = [pc EXCEPT !.main = "stopped"]
    /\ last' = Quiet
    /\ UNCHANGED history
    /\ UNCHANGED dcp
    /\ UNCHANGED <<rmFields, observeTimer, tickers, observeCloseCh, closed,
                   observers, data, panicked>>

(***************************************************************************)
(* Stop() called once more after a Stop() that has returned: the same      *)
(* statements, at positions of their own.                                  *)
(***************************************************************************)
\* r.closed = true; if r.observeTimer != nil { r.observeTimer.Stop() ...
StopAgainBegin ==
    /\ ~panicked
    /\ pc.main = "stopped"
    /\ closed' = TRUE
    /\ IF observeTimer = 0
       THEN /\ configWatchTimer' = StopConfigWatchTimer
            /\ pc' = [pc EXCEPT !.main = "stoppedAgain"]
            /\ UNCHANGED tickers
       ELSE /\ tickers' = [tickers EXCEPT ![observeTimer] = "stopped"]
            /\ pc' = [pc EXCEPT !.main = "againSendClose"]
            /\ UNCHANGED configWatchTimer
    /\ last' = Quiet
    /\ UNCHANGED history
    /\ UNCHANGED dcp
    /\ UNCHANGED <<rmFields, observeTimer, chans, observers, data, panicked>>

\* r.observeCloseCh <- struct{}{}
StopAgainSendClose ==
    /\ ~panicked
    /\ pc.main = "againSendClose"
    /\ observeCloseCh < ChanCap
    /\ observeCloseCh' = observeCloseCh + 1
    /\ pc' = [pc EXCEPT !.main = "againRecvDone"]
    /\ last' = Quiet
    /\ UNCHANGED history
    /\ UNCHANGED dcp
    /\ UNCHANGED <<rmFields, configWatchTimer, observeTimer, tickers,
                   observeCloseDoneCh, closed, observers, data, panicked>>

\* <-r.observeCloseDoneCh, then the config-watch timer, then Stop returns.
StopAgainRecvDone ==
    /\ ~panicked
    /\ pc.main = "againRecvDone"
    /\ observeCloseDoneCh > 0
    /\ observeCloseDoneCh' = observeCloseDoneCh - 1
    /\ configWatchTimer' = StopConfigWatchTimer
    /\ pc' = [pc EXCEPT !.main = "stoppedAgain"]
    /\ last' = Quiet
    /\ UNCHANGED history
    /\ UNCHANGED dcp
    /\ UNCHANGED <<rmFields, observeTimer, tickers, observeCloseCh, closed,
                   observers, data, panicked>>

(***************************************************************************)
(* startObserve(groupID): observer i is the i-th goroutine spawned.        *)
(***************************************************************************)
Live(o) == o.pc # "done"

\* r.vbUUIDMap = CreateConcurrentSwissMap(...); r.loadVbUUIDMap(): every vbID
\* gets failoverLogs[0].VbUUID.
ObserverInit(i, failover) ==
    /\ ~panicked
    /\ observers[i].pc = "init"
    /\ vbUUIDMap' = failover
    /\ observers' = [observers EXCEPT ![i].pc = "newTicker"]
    /\ last' = Quiet
    /\ UNCHANGED history
    /\ UNCHANGED dcp
    /\ UNCHANGED <<rmFields, configWatchTimer, observeTimer, tickers, chans,
                   closed, pc, inflight, lastEvent, panicked>>

\* GetFailoverLogs fails: loadVbUUIDMap panics.
ObserverInitPanic(i) ==
    /\ ~panicked
    /\ observers[i].pc = "init"
    /\ panicked' = TRUE
    /\ last' = Quiet
    /\ UNCHANGED history
    /\ UNCHANGED dcp
    /\ UNCHANGED <<rmFields, configWatchTimer, observeTimer, tickers, chans,
                   closed, pc, observers, data>>

\* r.observeTimer = time.NewTicker(...)
ObserverNewTicker(i) ==
    /\ ~panicked
    /\ observers[i].pc = "newTicker"
    /\ tickers' = Append(tickers, "active")
    /\ observeTimer' = Len(tickers')
    /\ observers' = [observers EXCEPT ![i].pc = "select"]
    /\ last' = Quiet
    /\ UNCHANGED history
    /\ UNCHANGED dcp
    /\ UNCHANGED <<rmFields, configWatchTimer, chans, closed, pc, data, panicked>>

\* Back at the select: the goroutine reads r.observeTimer and blocks on that
\* ticker's channel and on r.observeCloseCh.
AtSelect(o) ==
    [o EXCEPT !.pc = "wait", !.timer = observeTimer, !.alloc = 0,
              !.vbID = 0, !.idx = 0, !.todo = {}]

\* select { case <-r.observeTimer.C: ... }: entering the select.
ObserverSelect(i) ==
    /\ ~panicked
    /\ observers[i].pc = "select"
    /\ observers' = [observers EXCEPT ![i] = AtSelect(@)]
    /\ last' = Quiet
    /\ UNCHANGED history
    /\ UNCHANGED dcp
    /\ UNCHANGED <<rmFields, configWatchTimer, observeTimer, tickers, chans,
                   closed, pc, data, panicked>>

\* The positions Range can visit next: the next slot of vb from index from on
\* that is not absent, else the first such slot of a vbID not visited yet (Range
\* fixes no order of the keys); {} when the Range is over.
RECURSIVE NextPositions(_, _, _, _)
NextPositions(seqNos, vb, from, todo) ==
    LET present == { j \in DOMAIN seqNos[vb] : j >= from /\ ~seqNos[vb][j].absent }
    IN  IF present # {}
        THEN { [vbID |-> vb, idx |-> CHOOSE j \in present : \A k \in present : j <= k,
                todo |-> todo] }
        ELSE UNION { NextPositions(seqNos, w, 0, todo \ {w}) : w \in todo }

FirstPositions(seqNos) ==
    UNION { NextPositions(seqNos, w, 0, vbIds \ {w}) : w \in vbIds }

\* case <-r.observeTimer.C: the Range starts on the map r.persistedSeqNos points
\* to now and skips the absent slots.
ObserverTick(i) ==
    /\ ~panicked
    /\ observers[i].pc = "wait"
    /\ observers[i].timer # 0
    /\ tickers[observers[i].timer] = "active"
    /\ LET first == FirstPositions(persistedSeqNos)
       IN  IF first = {}
           THEN observers' = [observers EXCEPT ![i] = AtSelect(@)]
           ELSE \E p \in first :
                   observers' = [observers EXCEPT ![i].pc = "check",
                                                  ![i].alloc = mapAlloc,
                                                  ![i].vbID = p.vbID,
                                                  ![i].idx = p.idx,
                                                  ![i].todo = p.todo]
    /\ last' = Quiet
    /\ UNCHANGED history
    /\ UNCHANGED dcp
    /\ UNCHANGED <<rmFields, configWatchTimer, observeTimer, tickers, chans,
                   closed, pc, data, panicked>>

\* if r.closed || r.activeGroupID != groupID { return false }
ObserverMustStop(groupID) == closed \/ activeGroupID # groupID

ObserverCheck(i) ==
    /\ ~panicked
    /\ observers[i].pc = "check"
    /\ IF ObserverMustStop(observers[i].groupID)
       THEN observers' = [observers EXCEPT ![i] = AtSelect(@)]
       ELSE observers' = [observers EXCEPT ![i].pc = "observe"]
    /\ last' = Quiet
    /\ UNCHANGED history
    /\ UNCHANGED dcp
    /\ UNCHANGED <<rmFields, configWatchTimer, observeTimer, tickers, chans,
                   closed, pc, data, panicked>>

\* An ObserveVb request on its way, its callback not yet called.
Request(vbID, replica, groupID, vbUUID) ==
    [vbID |-> vbID, replica |-> replica, groupID |-> groupID, vbUUID |-> vbUUID,
     pc |-> "sent", result |-> [vbUUID |-> 0, seqNo |-> 0], alloc |-> 0]

\* vbUUID, _ := r.vbUUIDMap.Load(vbID); r.observe(vbID, idx, groupID, vbUUID),
\* then on to the next slot that is not absent.  A Range on a map that
\* reconfigure has replaced meanwhile ends at its next check.
ObserverObserve(i) ==
    LET o == observers[i]
        next == IF o.alloc = mapAlloc
                THEN NextPositions(persistedSeqNos, o.vbID, o.idx + 1, o.todo)
                ELSE {}
    IN  /\ ~panicked
        /\ o.pc = "observe"
        /\ inflight' = inflight (+) SetToBag({Request(o.vbID, o.idx, o.groupID, vbUUIDMap[o.vbID])})
        /\ IF next = {}
           THEN observers' = [observers EXCEPT ![i] = AtSelect(@)]
           ELSE \E p \in next :
                   observers' = [observers EXCEPT ![i].pc = "check",
                                                  ![i].vbID = p.vbID,
                                                  ![i].idx = p.idx,
                                                  ![i].todo = p.todo]
        /\ last' = Quiet
        /\ UNCHANGED history
        /\ UNCHANGED dcp
        /\ UNCHANGED <<rmFields, configWatchTimer, observeTimer, tickers, chans,
                       closed, pc, vbUUIDMap, lastEvent, panicked>>

\* case <-r.observeCloseCh:
ObserverRecvClose(i) ==
    /\ ~panicked
    /\ observers[i].pc = "wait"
    /\ observeCloseCh > 0
    /\ observeCloseCh' = observeCloseCh - 1
    /\ observers' = [observers EXCEPT ![i].pc = "sendDone"]
    /\ last' = Quiet
    /\ UNCHANGED history
    /\ UNCHANGED dcp
    /\ UNCHANGED <<rmFields, configWatchTimer, observeTimer, tickers,
                   observeCloseDoneCh, closed, pc, data, panicked>>

\* An Observer that returns on the close signal without the done signal.
ObserverReturn(i) ==
    /\ ~panicked
    /\ observers[i].pc = "sendDone"
    /\ observers' = [observers EXCEPT ![i].pc = "done", ![i].timer = 0]
    /\ last' = Quiet
    /\ UNCHANGED history
    /\ UNCHANGED dcp
    /\ UNCHANGED <<rmFields, configWatchTimer, observeTimer, tickers,
                   chans, closed, pc, data, panicked>>

\* An Observer that answers done to reconfigure only: once closed is set it
\* returns without the done signal.
ObserverSendDoneUnlessClosed(i) ==
    /\ ~panicked
    /\ observers[i].pc = "sendDone"
    /\ closed \/ observeCloseDoneCh < ChanCap
    /\ observeCloseDoneCh' = IF closed THEN observeCloseDoneCh ELSE observeCloseDoneCh + 1
    /\ observers' = [observers EXCEPT ![i].pc = "done", ![i].timer = 0]
    /\ last' = Quiet
    /\ UNCHANGED history
    /\ UNCHANGED dcp
    /\ UNCHANGED <<rmFields, configWatchTimer, observeTimer, tickers,
                   observeCloseCh, closed, pc, data, panicked>>

\* r.observeCloseDoneCh <- struct{}{}; return
ObserverSendDone(i) ==
    /\ ~panicked
    /\ observers[i].pc = "sendDone"
    /\ observeCloseDoneCh < ChanCap
    /\ observeCloseDoneCh' = observeCloseDoneCh + 1
    /\ observers' = [observers EXCEPT ![i].pc = "done", ![i].timer = 0]
    /\ last' = Quiet
    /\ UNCHANGED history
    /\ UNCHANGED dcp
    /\ UNCHANGED <<rmFields, configWatchTimer, observeTimer, tickers,
                   observeCloseCh, closed, pc, data, panicked>>

(***************************************************************************)
(* The callback observe() hands to ObserveVb, run by the cluster client.   *)
(* An error ObserveVb returns at once makes observeVbID call the callback   *)
(* itself: the same steps, with an error.                                  *)
(***************************************************************************)
Take(c) == inflight (-) SetToBag({c})
Put(bag, c) == bag (+) SetToBag({c})

Sent == { c \in BagToSet(inflight) : c.pc = "sent" }
Running(at) == { c \in BagToSet(inflight) : c.pc = at }

\* The callback's first check without the generation.
CallbackMustReturnClosedOnly(groupID) == closed

\* if r.closed || r.activeGroupID != groupID { return }
CallbackMustReturn(groupID) == closed \/ activeGroupID # groupID

\* The callback is called and returns at its first check.
CallbackDiscard(c) ==
    /\ ~panicked
    /\ c \in Sent
    /\ CallbackMustReturn(c.groupID)
    /\ inflight' = Take(c)
    /\ last' = [act |-> "CallbackDiscard", arg |-> <<c.vbID, c.replica, c.groupID>>]
    /\ UNCHANGED history
    /\ UNCHANGED dcp
    /\ UNCHANGED <<rmFields, configWatchTimer, observeTimer, tickers, chans,
                   closed, pc, observers, vbUUIDMap, lastEvent, panicked>>

\* A temporary failure that clears the seqNo of the slot.
CallbackTemporaryFailureClears(c) ==
    /\ ~panicked
    /\ c \in Sent
    /\ ~CallbackMustReturn(c.groupID)
    /\ inflight' = Take(c)
    /\ persistedSeqNos' = [persistedSeqNos EXCEPT ![c.vbID][c.replica].seqNo = 0]
    /\ last' = [act |-> "CallbackTemporaryFailure", arg |-> <<c.vbID, c.replica, c.groupID>>]
    /\ UNCHANGED history
    /\ UNCHANGED dcp
    /\ UNCHANGED <<configSnapshot, mapAlloc, activeGroupID, configWatchTimer,
                   observeTimer, tickers, chans, closed, pc, observers,
                   vbUUIDMap, lastEvent, panicked>>

\* errors.Is(err, gocbcore.ErrTemporaryFailure): log and return.
CallbackTemporaryFailure(c) ==
    /\ ~panicked
    /\ c \in Sent
    /\ ~CallbackMustReturn(c.groupID)
    /\ inflight' = Take(c)
    /\ last' = [act |-> "CallbackTemporaryFailure", arg |-> <<c.vbID, c.replica, c.groupID>>]
    /\ UNCHANGED history
    /\ UNCHANGED dcp
    /\ UNCHANGED <<rmFields, configWatchTimer, observeTimer, tickers, chans,
                   closed, pc, observers, vbUUIDMap, lastEvent, panicked>>

\* Any other error: panic(err).
CallbackPanic(c) ==
    /\ ~panicked
    /\ c \in Sent
    /\ ~CallbackMustReturn(c.groupID)
    /\ panicked' = TRUE
    /\ last' = Quiet
    /\ UNCHANGED history
    /\ UNCHANGED dcp
    /\ UNCHANGED <<rmFields, configWatchTimer, observeTimer, tickers, chans,
                   closed, pc, observers, data>>

\* The callback is called with a result and passes its checks.
CallbackResult(c, vbUUID, seqNo) ==
    /\ ~panicked
    /\ c \in Sent
    /\ ~CallbackMustReturn(c.groupID)
    /\ inflight' = Put(Take(c), [c EXCEPT !.pc = "setSeqNo",
                                          !.result = [vbUUID |-> vbUUID, seqNo |-> seqNo]])
    /\ last' = Quiet
    /\ delivered' = IF recording
                    THEN Append(delivered, [replica |-> c.replica, vbUUID |-> vbUUID,
                                            seqNo |-> seqNo, after |-> Len(published)])
                    ELSE delivered
    /\ UNCHANGED <<rmFields, configWatchTimer, observeTimer, tickers, chans,
                   closed, pc, observers, vbUUIDMap, lastEvent, panicked,
                   published, recording, branch, dcp>>

\* A write that goes to the slot of the active copy whatever the replica.
WriteSlotFirst(c, field, value) ==
    IF c.alloc = mapAlloc
    THEN [persistedSeqNos EXCEPT ![c.vbID][0][field] = value]
    ELSE persistedSeqNos

\* A write through the slice the callback loaded: it reaches r.persistedSeqNos
\* only while that is still the map the slice came from.
WriteSlot(c, field, value) ==
    IF c.alloc = mapAlloc
    THEN [persistedSeqNos EXCEPT ![c.vbID][c.replica][field] = value]
    ELSE persistedSeqNos

\* replicas, ok := r.persistedSeqNos.Load(vbID); if len(replicas) > replica {
\* replicas[replica].SetSeqNo(result.PersistSeqNo) ... } else { log }
CallbackSetSeqNo(c) ==
    /\ ~panicked
    /\ c \in Running("setSeqNo")
    /\ IF Length(persistedSeqNos[c.vbID]) > c.replica
       THEN LET loaded == [c EXCEPT !.alloc = mapAlloc]
            IN  /\ persistedSeqNos' = WriteSlot(loaded, "seqNo", c.result.seqNo)
                /\ inflight' = Put(Take(c), [loaded EXCEPT !.pc = "setVbUUID"])
       ELSE /\ inflight' = Take(c)
            /\ UNCHANGED persistedSeqNos
    /\ last' = IF Length(persistedSeqNos[c.vbID]) > c.replica
               THEN Quiet
               ELSE [act |-> "CallbackNotFound", arg |-> <<c.vbID, c.replica, c.groupID>>]
    /\ UNCHANGED history
    /\ UNCHANGED dcp
    /\ UNCHANGED <<configSnapshot, mapAlloc, activeGroupID, configWatchTimer,
                   observeTimer, tickers, chans, closed, pc, observers,
                   vbUUIDMap, lastEvent, panicked>>

\* replicas[replica].SetVbUUID(result.VbUUID)
CallbackSetVbUUID(c) ==
    /\ ~panicked
    /\ c \in Running("setVbUUID")
    /\ persistedSeqNos' = WriteSlot(c, "vbUUID", c.result.vbUUID)
    /\ inflight' = Put(Take(c), [c EXCEPT !.pc = "publish"])
    /\ last' = Quiet
    /\ UNCHANGED history
    /\ UNCHANGED dcp
    /\ UNCHANGED <<configSnapshot, mapAlloc, activeGroupID, configWatchTimer,
                   observeTimer, tickers, chans, closed, pc, observers,
                   vbUUIDMap, lastEvent, panicked>>

\* getMinSeqNo(vbID): on the vector r.persistedSeqNos holds now.
getMinSeqNo(vbID) == MinSeqNoOf(persistedSeqNos[vbID])

\* r.bus.Publish(..., PersistSeqNo{vbID, r.getMinSeqNo(vbID)});
\* if vbUUID != result.VbUUID { r.vbUUIDMap.Store(vbID, result.VbUUID) }
CallbackPublish(c) ==
    /\ ~panicked
    /\ c \in Running("publish")
    /\ lastEvent' = [vbID |-> c.vbID, seqNo |-> getMinSeqNo(c.vbID)]
    /\ vbUUIDMap' = IF c.vbUUID # c.result.vbUUID
                    THEN [vbUUIDMap EXCEPT ![c.vbID] = c.result.vbUUID]
                    ELSE vbUUIDMap
    /\ inflight' = Take(c)
    /\ last' = Quiet
    /\ published' = IF recording THEN Append(published, lastEvent') ELSE published
    /\ branch' = IF c.vbUUID # c.result.vbUUID
                 THEN [branch EXCEPT ![c.vbID] = [groupID |-> c.groupID,
                                                  vbUUID |-> c.result.vbUUID]]
                 ELSE branch
    /\ UNCHANGED <<rmFields, configWatchTimer, observeTimer, tickers, chans,
                   closed, pc, observers, panicked, delivered, recording, dcp>>

(***************************************************************************)
(* The specification.                                                      *)
(***************************************************************************)
\* The subsystem from NewRollbackMitigation on: one caller, who calls Start and
\* then Stop once, the cluster answering from the input domains above.
Next ==
    \/ \E snapshot \in FirstTopologies : WaitFirstConfig(snapshot)
    \/ WaitFirstConfigFails
    \/ \E self \in {"main", "watch"} :
          \/ ReconfigureCheckTimer(self)
          \/ ReconfigureSendClose(self)
          \/ ReconfigureRecvDone(self)
          \/ ReconfigureSwap(self)
          \/ ReconfigurePanic(self)
    \/ WatchNewTicker
    \/ configWatch(TRUE, NoSnapshot)
    \/ \E snapshot \in Topologies : configWatch(FALSE, snapshot)
    \/ StopBegin
    \/ StopSendClose
    \/ StopRecvDone
    \/ \E i \in DOMAIN observers, failover \in [vbIds -> VbUUIDs] : ObserverInit(i, failover)
    \/ \E i \in DOMAIN observers : ObserverInitPanic(i)
    \/ \E i \in DOMAIN observers : ObserverNewTicker(i)
    \/ \E i \in DOMAIN observers : ObserverSelect(i)
    \/ \E i \in DOMAIN observers : ObserverTick(i)
    \/ \E i \in DOMAIN observers : ObserverCheck(i)
    \/ \E i \in DOMAIN observers : BagCardinality(inflight) < MaxInFlight /\ ObserverObserve(i)
    \/ \E i \in DOMAIN observers : ObserverRecvClose(i)
    \/ \E i \in DOMAIN observers : ObserverSendDone(i)
    \/ \E c \in BagToSet(inflight) : CallbackDiscard(c)
    \/ \E c \in BagToSet(inflight) : CallbackTemporaryFailure(c)
    \/ \E c \in BagToSet(inflight) : CallbackPanic(c)
    \/ \E c \in BagToSet(inflight), vbUUID \in VbUUIDs, seqNo \in SeqNos :
          CallbackResult(c, vbUUID, seqNo)
    \/ \E c \in BagToSet(inflight) : CallbackSetSeqNo(c)
    \/ \E c \in BagToSet(inflight) : CallbackSetVbUUID(c)
    \/ \E c \in BagToSet(inflight) : CallbackPublish(c)

Spec == Init /\ [][Next]_vars

(***************************************************************************)
(* getMinSeqNo on its own: every replica vector of up to MinMaxReplicas    *)
(* replicas, then one call of getMinSeqNo whose result is published.       *)
(***************************************************************************)
MinVbUUIDs == {43690, 48059}
MinSeqNos == {0, 100, 110}
MinSlots == [vbUUID : MinVbUUIDs, seqNo : MinSeqNos, absent : BOOLEAN]

MinInit ==
    /\ persistedSeqNos \in UNION { [vbIds -> [0..n -> MinSlots]] : n \in 0..MinMaxReplicas }
    /\ configSnapshot = NoSnapshot
    /\ mapAlloc = 1
    /\ vbUUIDMap = [vb \in vbIds |-> 0]
    /\ configWatchTimer = "nil"
    /\ observeTimer = 0
    /\ tickers = <<>>
    /\ observeCloseCh = 0
    /\ observeCloseDoneCh = 0
    /\ activeGroupID = 1
    /\ closed = FALSE
    /\ pc = [main |-> "min", watch |-> "none"]
    /\ observers = <<>>
    /\ inflight = EmptyBag
    /\ lastEvent = NoEvent
    /\ panicked = FALSE
    /\ last = Quiet
    /\ delivered = <<>>
    /\ published = <<>>
    /\ recording = FALSE
    /\ branch = NoBranch
    /\ dcp = NoDcp

\* PersistSeqNo{VbID: vbID, SeqNo: r.getMinSeqNo(vbID)}
MinApply(vbID) ==
    /\ pc.main = "min"
    /\ lastEvent' = [vbID |-> vbID, seqNo |-> getMinSeqNo(vbID)]
    /\ pc' = [pc EXCEPT !.main = "minDone"]
    /\ UNCHANGED <<rmFields, vbUUIDMap, configWatchTimer, observeTimer, tickers,
                   chans, closed, observers, inflight, panicked, last, history, dcp>>

MinNext == \E vbID \in vbIds : MinApply(vbID)

SpecMin == MinInit /\ [][MinNext]_vars

(***************************************************************************)
(* One generation on a topology of two replicas, all three copies present: *)
(* Start, the Observer, and MaxDeliveries requests, each answered with a    *)
(* result; the results and the events are recorded.                        *)
(***************************************************************************)
ScenarioTopology == Snapshot(1, 1, 2, [s \in Slots(2) |-> RouteOk])
ScenarioVbUUIDs == {43690, 48059}
ScenarioSeqNos == {100, 110, 120}

ScenarioInit == Constructed /\ recording = TRUE /\ dcp = NoDcp

ScenarioNext ==
    \/ WaitFirstConfig(ScenarioTopology)
    \/ ReconfigureCheckTimer("main")
    \/ ReconfigureSwap("main")
    \/ \E i \in DOMAIN observers, failover \in [vbIds -> ScenarioVbUUIDs] : ObserverInit(i, failover)
    \/ \E i \in DOMAIN observers : ObserverNewTicker(i)
    \/ \E i \in DOMAIN observers : ObserverSelect(i)
    \/ \E i \in DOMAIN observers : ObserverTick(i)
    \/ \E i \in DOMAIN observers : ObserverCheck(i)
    \/ \E i \in DOMAIN observers :
          /\ BagCardinality(inflight) < MaxInFlight
          /\ Len(delivered) + BagCardinality(inflight) < MaxDeliveries
          /\ ObserverObserve(i)
    \/ \E c \in BagToSet(inflight), vbUUID \in ScenarioVbUUIDs, seqNo \in ScenarioSeqNos :
          Len(delivered) < MaxDeliveries /\ CallbackResult(c, vbUUID, seqNo)
    \/ \E c \in BagToSet(inflight) : CallbackSetSeqNo(c)
    \/ \E c \in BagToSet(inflight) : CallbackSetVbUUID(c)
    \/ \E c \in BagToSet(inflight) : CallbackPublish(c)

SpecScenario == ScenarioInit /\ [][ScenarioNext]_vars

(***************************************************************************)
(* One generation on the snapshot (2,4), both copies present, with one     *)
(* callback more than MaxInFlight running at a time: the cluster client    *)
(* calls the callbacks of different nodes from different goroutines, and   *)
(* the slots are read and written without a lock, so the steps of two      *)
(* callbacks interleave.  The results and the events are recorded.         *)
(***************************************************************************)
ConcurrentSeqNos == {100, 120}

ConcurrentNext ==
    \/ \E snapshot \in { t \in Topologies : t.epoch = 2 /\ t.revID = 4 } :
          WaitFirstConfig(snapshot)
    \/ ReconfigureCheckTimer("main")
    \/ ReconfigureSwap("main")
    \/ \E i \in DOMAIN observers, failover \in [vbIds -> ScenarioVbUUIDs] : ObserverInit(i, failover)
    \/ \E i \in DOMAIN observers : ObserverNewTicker(i)
    \/ \E i \in DOMAIN observers : ObserverSelect(i)
    \/ \E i \in DOMAIN observers : ObserverTick(i)
    \/ \E i \in DOMAIN observers : ObserverCheck(i)
    \/ \E i \in DOMAIN observers :
          /\ BagCardinality(inflight) <= MaxInFlight
          /\ Len(delivered) + BagCardinality(inflight) < MaxDeliveries
          /\ ObserverObserve(i)
    \/ \E c \in BagToSet(inflight), vbUUID \in ScenarioVbUUIDs, seqNo \in ConcurrentSeqNos :
          Len(delivered) < MaxDeliveries /\ CallbackResult(c, vbUUID, seqNo)
    \/ \E c \in BagToSet(inflight) : CallbackSetSeqNo(c)
    \/ \E c \in BagToSet(inflight) : CallbackSetVbUUID(c)
    \/ \E c \in BagToSet(inflight) : CallbackPublish(c)

SpecConcurrent == ScenarioInit /\ [][ConcurrentNext]_vars

(***************************************************************************)
(* Two generations with two history branches: Start on the snapshot (2,4), *)
(* the config watcher fetching (2,5), the cluster reporting either vbUUID. *)
(***************************************************************************)
BranchVbUUIDs == {43690, 48059}
BranchFirst == { t \in Topologies : t.epoch = 2 /\ t.revID = 4 }
BranchLater == { t \in Topologies : t.epoch = 2 /\ t.revID = 5 }

BranchNext ==
    \/ \E snapshot \in BranchFirst : WaitFirstConfig(snapshot)
    \/ \E self \in {"main", "watch"} :
          \/ ReconfigureCheckTimer(self)
          \/ ReconfigureSendClose(self)
          \/ ReconfigureRecvDone(self)
          \/ ReconfigureSwap(self)
    \/ WatchNewTicker
    \/ \E snapshot \in BranchLater : configWatch(FALSE, snapshot)
    \/ \E i \in DOMAIN observers, failover \in [vbIds -> BranchVbUUIDs] : ObserverInit(i, failover)
    \/ \E i \in DOMAIN observers : ObserverNewTicker(i)
    \/ \E i \in DOMAIN observers : ObserverSelect(i)
    \/ \E i \in DOMAIN observers : ObserverTick(i)
    \/ \E i \in DOMAIN observers : ObserverCheck(i)
    \/ \E i \in DOMAIN observers : BagCardinality(inflight) < MaxInFlight /\ ObserverObserve(i)
    \/ \E i \in DOMAIN observers : ObserverRecvClose(i)
    \/ \E i \in DOMAIN observers : ObserverSendDone(i)
    \/ \E c \in BagToSet(inflight) : CallbackDiscard(c)
    \/ \E c \in BagToSet(inflight), vbUUID \in BranchVbUUIDs, seqNo \in SeqNos :
          CallbackResult(c, vbUUID, seqNo)
    \/ \E c \in BagToSet(inflight) : CallbackSetSeqNo(c)
    \/ \E c \in BagToSet(inflight) : CallbackSetVbUUID(c)
    \/ \E c \in BagToSet(inflight) : CallbackPublish(c)

SpecBranch == Init /\ [][BranchNext]_vars

(***************************************************************************)
(* Two generations on any topologies: Start on a snapshot of version (1,1) *)
(* with up to TopoMaxReplicas replicas and any routing, the config watcher *)
(* fetching the installed snapshot again or, once, any such snapshot of    *)
(* version (1,2); the cluster answers a request before the next is issued; *)
(* no Stop.                                                                *)
(***************************************************************************)
Routes == {RouteOk, RouteInvalid, RouteNegative, RouteError}

TopoSnapshots(epoch, revID) ==
    UNION { { Snapshot(epoch, revID, n, table) : table \in [Slots(n) -> Routes] } :
            n \in 0..TopoMaxReplicas }

TopoNext ==
    \/ \E snapshot \in TopoSnapshots(1, 1) : WaitFirstConfig(snapshot)
    \/ \E self \in {"main", "watch"} :
          \/ ReconfigureCheckTimer(self)
          \/ ReconfigureSendClose(self)
          \/ ReconfigureRecvDone(self)
          \/ ReconfigureSwap(self)
          \/ ReconfigurePanic(self)
    \/ WatchNewTicker
    \/ configWatch(TRUE, NoSnapshot)
    \/ configWatch(FALSE, configSnapshot)
    \/ \E snapshot \in TopoSnapshots(1, 2) : configSnapshot.revID = 1 /\ configWatch(FALSE, snapshot)
    \/ \E i \in DOMAIN observers, failover \in [vbIds -> VbUUIDs] : ObserverInit(i, failover)
    \/ \E i \in DOMAIN observers : ObserverNewTicker(i)
    \/ \E i \in DOMAIN observers : ObserverSelect(i)
    \/ \E i \in DOMAIN observers : ObserverTick(i)
    \/ \E i \in DOMAIN observers : ObserverCheck(i)
    \/ \E i \in DOMAIN observers : inflight = EmptyBag /\ ObserverObserve(i)
    \/ \E i \in DOMAIN observers : ObserverRecvClose(i)
    \/ \E i \in DOMAIN observers : ObserverSendDone(i)
    \/ \E c \in BagToSet(inflight) : CallbackDiscard(c)
    \/ \E c \in BagToSet(inflight) : CallbackTemporaryFailure(c)
    \/ \E c \in BagToSet(inflight), vbUUID \in VbUUIDs, seqNo \in SeqNos :
          CallbackResult(c, vbUUID, seqNo)
    \/ \E c \in BagToSet(inflight) : CallbackSetSeqNo(c)
    \/ \E c \in BagToSet(inflight) : CallbackSetVbUUID(c)
    \/ \E c \in BagToSet(inflight) : CallbackPublish(c)

SpecTopo == Init /\ [][TopoNext]_vars

(***************************************************************************)
(* Start on the snapshot (2,4), the config watcher fetching (2,5), and the *)
(* caller calling Stop twice.                                              *)
(***************************************************************************)
StopTwiceNext ==
    \/ \E snapshot \in BranchFirst : WaitFirstConfig(snapshot)
    \/ \E self \in {"main", "watch"} :
          \/ ReconfigureCheckTimer(self)
          \/ ReconfigureSendClose(self)
          \/ ReconfigureRecvDone(self)
          \/ ReconfigureSwap(self)
    \/ WatchNewTicker
    \/ \E snapshot \in BranchLater : configWatch(FALSE, snapshot)
    \/ StopBegin
    \/ StopSendClose
    \/ StopRecvDone
    \/ StopAgainBegin
    \/ StopAgainSendClose
    \/ StopAgainRecvDone
    \/ \E i \in DOMAIN observers, failover \in [vbIds -> VbUUIDs] : ObserverInit(i, failover)
    \/ \E i \in DOMAIN observers : ObserverNewTicker(i)
    \/ \E i \in DOMAIN observers : ObserverSelect(i)
    \/ \E i \in DOMAIN observers : ObserverTick(i)
    \/ \E i \in DOMAIN observers : ObserverCheck(i)
    \/ \E i \in DOMAIN observers : BagCardinality(inflight) < MaxInFlight /\ ObserverObserve(i)
    \/ \E i \in DOMAIN observers : ObserverRecvClose(i)
    \/ \E i \in DOMAIN observers : ObserverSendDone(i)
    \/ \E c \in BagToSet(inflight) : CallbackDiscard(c)
    \/ \E c \in BagToSet(inflight), vbUUID \in VbUUIDs, seqNo \in SeqNos :
          CallbackResult(c, vbUUID, seqNo)
    \/ \E c \in BagToSet(inflight) : CallbackSetSeqNo(c)
    \/ \E c \in BagToSet(inflight) : CallbackSetVbUUID(c)
    \/ \E c \in BagToSet(inflight) : CallbackPublish(c)

SpecStopTwice == Init /\ [][StopTwiceNext]_vars

(***************************************************************************)
(* Progress of reconfigure: Start on the snapshot of version (1,1), the    *)
(* config watcher fetching the snapshot of the next version up to (1,3),   *)
(* every routing valid; no Stop, no error that panics, every request       *)
(* answered by a temporary failure.  The goroutines are scheduled fairly,  *)
(* a select with a ready case takes it in the end, and the cluster client  *)
(* calls every callback.                                                   *)
(***************************************************************************)
ProgressTopologies ==
    { Snapshot(1, revID, 1, [s \in Slots(1) |-> RouteOk]) : revID \in 1..3 }

\* The startObserve goroutines a run can spawn: one per installed snapshot.
ProgressObservers == 1..Cardinality(ProgressTopologies)

\* One step of the goroutine startObserve number i, but for the two cases
\* of its select.
ObserverRuns(i) ==
    /\ i \in DOMAIN observers
    /\ \/ \E failover \in [vbIds -> VbUUIDs] : ObserverInit(i, failover)
       \/ ObserverNewTicker(i)
       \/ ObserverSelect(i)
       \/ ObserverCheck(i)
       \/ ObserverSendDone(i)

\* r.observe(...) returns once the request is handed to the client; the
\* client answers a request before the next is issued.
ObserverIssues(i) ==
    /\ i \in DOMAIN observers
    /\ inflight = EmptyBag
    /\ ObserverObserve(i)

\* The close case of the select.
ObserverCloses(i) == i \in DOMAIN observers /\ ObserverRecvClose(i)

\* The cluster client calls a callback, here with a temporary failure, which
\* returns at once.
CallbackRuns ==
    \E c \in BagToSet(inflight) :
       \/ CallbackDiscard(c)
       \/ CallbackTemporaryFailure(c)

\* One step of reconfigure on goroutine self.
ReconfigureRuns(self) ==
    \/ ReconfigureCheckTimer(self)
    \/ ReconfigureSendClose(self)
    \/ ReconfigureRecvDone(self)
    \/ ReconfigureSwap(self)

ProgressNext ==
    \/ \E snapshot \in ProgressTopologies : snapshot.revID = 1 /\ WaitFirstConfig(snapshot)
    \/ \E self \in {"main", "watch"} : ReconfigureRuns(self)
    \/ WatchNewTicker
    \/ \E snapshot \in ProgressTopologies :
          snapshot.revID = configSnapshot.revID + 1 /\ configWatch(FALSE, snapshot)
    \/ \E i \in ProgressObservers : ObserverRuns(i)
    \/ \E i \in DOMAIN observers : ObserverTick(i)
    \/ \E i \in ProgressObservers : ObserverIssues(i)
    \/ \E i \in ProgressObservers : ObserverCloses(i)
    \/ CallbackRuns

ProgressFairness ==
    /\ \A self \in {"main", "watch"} : WF_vars(ReconfigureRuns(self))
    /\ \A i \in ProgressObservers :
          /\ WF_vars(ObserverRuns(i))
          /\ WF_vars(ObserverIssues(i))
          /\ SF_vars(ObserverCloses(i))
    /\ WF_vars(CallbackRuns)

SpecProgress == Init /\ [][ProgressNext]_vars /\ ProgressFairness

(***************************************************************************)
(* The same with a caller who may call Stop once Start has returned: Stop  *)
(* races the reconfigure of the config watcher.  The call of Stop is up to *)
(* the caller; once called, Stop is scheduled fairly.                      *)
(***************************************************************************)
\* One step of Stop after its first statements.
StopRuns == StopSendClose \/ StopRecvDone

StopRaceNext ==
    \/ ProgressNext
    \/ StopBegin
    \/ StopRuns

SpecStopRace == Init /\ [][StopRaceNext]_vars /\ ProgressFairness /\ WF_vars(StopRuns)

(***************************************************************************)
(* The orchestrator of dcp.go: Start() from signal.Notify on, the          *)
(* health-check goroutine, the senders of the three signals, and Close()   *)
(* as far as it stops the health check.  The rollback mitigation is left   *)
(* as constructed.                                                         *)
(***************************************************************************)
rmVars == <<configSnapshot, persistedSeqNos, mapAlloc, vbUUIDMap, configWatchTimer,
            observeTimer, tickers, observeCloseCh, observeCloseDoneCh, activeGroupID,
            closed, pc, observers, inflight, lastEvent, panicked, last,
            delivered, published, recording, branch>>

\* if s.config.HealthCheck.Enabled { s.startHealthCheck() }: the ticker is
\* created and the goroutine spawned; Start goes on to its select.
DcpStart ==
    /\ dcp.start = "new"
    /\ dcp' = IF dcp.enabled
              THEN [dcp EXCEPT !.healthCheckTicker = "active", !.health = "loop",
                               !.start = "select"]
              ELSE [dcp EXCEPT !.start = "select"]
    /\ UNCHANGED rmVars

\* The ticker puts a tick into its channel, which holds one.
HealthTick ==
    /\ dcp.healthCheckTicker = "active"
    /\ dcp.tick = 0
    /\ dcp' = [dcp EXCEPT !.tick = 1]
    /\ UNCHANGED rmVars

\* A failed Ping that logs the error and goes on with the loop.
PingLogsOnly(ok) ==
    /\ dcp.health = "loop"
    /\ dcp.tick = 1
    /\ Len(dcp.pings) < MaxPings
    /\ dcp' = [dcp EXCEPT !.tick = 0, !.pings = Append(@, ok)]
    /\ UNCHANGED rmVars

\* for range s.healthCheckTicker.C { if err := s.client.Ping(); err != nil {
\* s.healthCheckTicker.Stop() ...
Ping(ok) ==
    /\ dcp.health = "loop"
    /\ dcp.tick = 1
    /\ Len(dcp.pings) < MaxPings
    /\ dcp' = IF ok
              THEN [dcp EXCEPT !.tick = 0, !.pings = Append(@, ok)]
              ELSE [dcp EXCEPT !.tick = 0, !.pings = Append(@, ok),
                               !.healthCheckTicker = "stopped", !.health = "send"]
    /\ UNCHANGED rmVars

\* s.healCheckFailedCh <- struct{}{}; break
HealthCheckFailed ==
    /\ dcp.health = "send"
    /\ dcp.healCheckFailedCh < SignalChanCap
    /\ dcp' = [dcp EXCEPT !.healCheckFailedCh = @ + 1, !.signals = @ + 1,
                          !.health = "ended"]
    /\ UNCHANGED rmVars

\* The stream sends on stopCh.
StopSignal ==
    /\ dcp.start # "new"
    /\ dcp.stopCh < SignalChanCap
    /\ dcp' = [dcp EXCEPT !.stopCh = @ + 1]
    /\ UNCHANGED rmVars

\* The runtime delivers SIGTERM, SIGINT, SIGABRT or SIGQUIT to cancelCh; it
\* drops the signal when the channel is full.
CancelSignal ==
    /\ dcp.start # "new"
    /\ dcp.cancelCh < SignalChanCap
    /\ dcp' = [dcp EXCEPT !.cancelCh = @ + 1]
    /\ UNCHANGED rmVars

\* select { case <-s.stopCh: case <-s.cancelCh: case <-s.healCheckFailedCh: }
DcpStartReturns(ch) ==
    /\ dcp.start = "select"
    /\ dcp[ch] > 0
    /\ dcp' = [dcp EXCEPT ![ch] = @ - 1, !.start = "returned"]
    /\ UNCHANGED rmVars

\* Close(): if s.config.HealthCheck.Enabled { s.stopHealthCheck() }
DcpClose ==
    /\ dcp.start = "returned"
    /\ ~dcp.closed
    /\ dcp' = IF dcp.enabled
              THEN [dcp EXCEPT !.closed = TRUE, !.healthCheckTicker = "stopped"]
              ELSE [dcp EXCEPT !.closed = TRUE]
    /\ UNCHANGED rmVars

DcpInit ==
    /\ Constructed
    /\ recording = FALSE
    /\ \E enabled \in BOOLEAN : dcp = newDcp(enabled)

DcpNext ==
    \/ DcpStart
    \/ HealthTick
    \/ \E ok \in BOOLEAN : Ping(ok)
    \/ HealthCheckFailed
    \/ StopSignal
    \/ CancelSignal
    \/ \E ch \in {"stopCh", "cancelCh", "healCheckFailedCh"} : DcpStartReturns(ch)
    \/ DcpClose

SpecDcp == DcpInit /\ [][DcpNext]_vars

(***************************************************************************)
(* Claims.                                                                 *)
(***************************************************************************)
LiveObservers == { i \in DOMAIN observers : Live(observers[i]) }

\* Number of copies of request c in a bag.
Copies(bag, c) == IF c \in BagToSet(bag) THEN bag[c] ELSE 0

\* Stop() has returned.
StopReturned == pc.main = "stopped"

\* C1: at most one startObserve goroutine is live (spawned and not yet
\* returned) in every reachable state.
C1_AtMostOneObserver == Cardinality(LiveObservers) <= 1

\* C8: whenever Stop() has returned, every startObserve goroutine that was
\* spawned has returned.
C8_StopContract == StopReturned => LiveObservers = {}

\* C9: after Stop() has returned no ticker is active and no goroutine is
\* processing a tick: neither an Observer in its Range nor configWatch.
C9_TimerRelease ==
    StopReturned =>
        /\ configWatchTimer # "active"
        /\ \A t \in DOMAIN tickers : tickers[t] # "active"
        /\ \A i \in DOMAIN observers : observers[i].pc \notin {"check", "observe"}
        /\ pc.watch \in {"none", "init", "wait"}

\* The callback of request c is called in this step.
Delivered(c) == c.pc = "sent" /\ Copies(inflight', c) < Copies(inflight, c)

\* Request c is issued in this step.
Issued(c) == c.pc = "sent" /\ Copies(inflight', c) > Copies(inflight, c)

\* C2: a callback issued under generation G and called when the generation is
\* past G, or when closed is set, returns at once: it writes no slot of
\* persistedSeqNos, no entry of vbUUIDMap, and publishes no event.
C2_StaleCallbackSafety ==
    [][\A c \in BagToSet(inflight) :
          (Delivered(c) /\ (closed \/ c.groupID < activeGroupID)) =>
              /\ inflight' = Take(c)
              /\ UNCHANGED <<persistedSeqNos, vbUUIDMap, lastEvent, published>>]_vars

\* A callback of an earlier generation has been called and discarded.
C2_Witness ==
    /\ last.act = "CallbackDiscard"
    /\ last.arg[3] < activeGroupID
    /\ ~closed

\* C5: activeGroupID never decreases; it changes only in the one step of
\* reconfigure that follows the timer check, and there by exactly 1; no two
\* Observers are spawned with the same generation id.
C5_MonotonicGeneration ==
    [][/\ activeGroupID' >= activeGroupID
       /\ (\E self \in DOMAIN pc : pc[self] = "swap" /\ pc'[self] # "swap")
              => activeGroupID' = activeGroupID + 1
       /\ activeGroupID' # activeGroupID
              => \E self \in DOMAIN pc : pc[self] = "swap" /\ activeGroupID' = activeGroupID + 1
       /\ \A i, j \in DOMAIN observers' :
              i # j => observers'[i].groupID # observers'[j].groupID]_vars

\* Two reconfigures have run, each has spawned its Observer.
C5_Witness ==
    /\ Len(observers) = 2
    /\ activeGroupID = 2
    /\ observers[1].groupID = 1
    /\ observers[2].groupID = 2

\* C6: no ObserveVb request is issued for a slot that is marked absent in
\* r.persistedSeqNos, the vector of the current generation, at that moment.
C6_AbsentNeverObserved ==
    [][\A c \in BagToSet(inflight') :
          Issued(c) =>
              ~(/\ c.replica \in DOMAIN persistedSeqNos[c.vbID]
                /\ persistedSeqNos[c.vbID][c.replica].absent)]_vars

\* (epoch, revID) of new is greater than that of old in lexicographic order.
StrictlyNewer(old, new) ==
    \/ new.epoch > old.epoch
    \/ new.epoch = old.epoch /\ new.revID > old.revID

\* This step is a config-watch tick that fetched version v.
WatchTick(v) == last'.act = "configWatch" /\ last'.arg = v /\ pc.watch = "wait"

\* The versions GetConfigSnapshot may return.
Versions == { <<t.epoch, t.revID>> : t \in Topologies }

\* C7: a config-watch tick installs the fetched snapshot and calls reconfigure
\* if and only if the fetch succeeded and the fetched (epoch, revID) is
\* strictly greater than the installed one; otherwise the snapshot, the
\* generation, the replica vectors and the Observers stay as they are.
C7_StrictlyNewerReconfigure ==
    [][/\ \A v \in Versions :
            WatchTick(v) =>
               IF StrictlyNewer(configSnapshot, [epoch |-> v[1], revID |-> v[2]])
               THEN /\ <<configSnapshot'.epoch, configSnapshot'.revID>> = v
                    /\ pc'.watch = "reconfigure"
               ELSE UNCHANGED <<configSnapshot, activeGroupID, persistedSeqNos,
                                mapAlloc, observers, tickers, observeTimer, pc>>
       /\ WatchTick(<<>>) =>
               UNCHANGED <<configSnapshot, activeGroupID, persistedSeqNos,
                           mapAlloc, observers, tickers, observeTimer, pc>>
       /\ (pc.watch # "reconfigure" /\ pc'.watch = "reconfigure") =>
               \E v \in Versions :
                  /\ WatchTick(v)
                  /\ StrictlyNewer(configSnapshot, [epoch |-> v[1], revID |-> v[2]])
       /\ configSnapshot' # configSnapshot =>
               pc.main = "new" \/ pc'.watch = "reconfigure"]_vars

\* S6: (2,5) is installed, the tick fetched (2,4) and nothing was done.
C7_Witness ==
    /\ last = [act |-> "configWatch", arg |-> <<2, 4>>]
    /\ <<configSnapshot.epoch, configSnapshot.revID>> = <<2, 5>>
    /\ pc.watch = "wait"
    /\ activeGroupID = 2

\* The slots of a replica vector that are not absent.
Present(replicas) == { i \in DOMAIN replicas : ~replicas[i].absent }

\* Two slots that are not absent hold different vbUUIDs.
Divergent(replicas) ==
    \E i, j \in Present(replicas) : replicas[i].vbUUID # replicas[j].vbUUID

\* The least seqNo of the slots that are not absent.
LeastSeqNo(replicas) ==
    CHOOSE m \in { replicas[i].seqNo : i \in Present(replicas) } :
        \A i \in Present(replicas) : m <= replicas[i].seqNo

\* getMinSeqNo(vbID) has been called and its result published.
MinTaken(vbID) == pc.main = "minDone" /\ lastEvent.vbID = vbID

\* C3: whenever two slots of a vBucket that are not absent hold different
\* vbUUIDs, wherever they are in the vector, getMinSeqNo returns 0.
C3_DivergenceYieldsZero ==
    \A vbID \in vbIds :
        (MinTaken(vbID) /\ Divergent(persistedSeqNos[vbID])) => lastEvent.seqNo = 0

\* The first slot is absent, the two behind it differ, neither seqNo is 0.
C3_Witness ==
    /\ MinTaken(42)
    /\ lastEvent.seqNo = 0
    /\ LET replicas == persistedSeqNos[42]
       IN  /\ Length(replicas) = 3
           /\ replicas[0].absent
           /\ Present(replicas) = {1, 2}
           /\ replicas[1].vbUUID # replicas[2].vbUUID
           /\ replicas[1].seqNo = 100
           /\ replicas[2].seqNo = 110

\* C4: when a vBucket has a slot that is not absent and all such slots hold
\* the same vbUUID, getMinSeqNo returns the least seqNo among them.
C4_ConvergenceYieldsMinimum ==
    \A vbID \in vbIds :
        (/\ MinTaken(vbID)
         /\ Present(persistedSeqNos[vbID]) # {}
         /\ ~Divergent(persistedSeqNos[vbID]))
            => lastEvent.seqNo = LeastSeqNo(persistedSeqNos[vbID])

\* The least seqNo is in the last slot; an absent slot between holds less.
C4_Witness ==
    /\ MinTaken(42)
    /\ lastEvent.seqNo = 100
    /\ LET replicas == persistedSeqNos[42]
       IN  /\ Length(replicas) = 3
           /\ Present(replicas) = {0, 2}
           /\ ~Divergent(replicas)
           /\ replicas[0].seqNo = 110
           /\ replicas[1].seqNo = 0
           /\ replicas[2].seqNo = 100

\* Scenario S1: three callbacks of generation 1, each called after the one
\* before has published, with (0xAAAA, 100), (0xAAAA, 120), (0xAAAA, 110) for
\* slots 0, 1, 2 of vbID 42; each has published its event.
S1Delivered ==
    /\ activeGroupID = 1
    /\ delivered = << [replica |-> 0, vbUUID |-> 43690, seqNo |-> 100, after |-> 0],
                      [replica |-> 1, vbUUID |-> 43690, seqNo |-> 120, after |-> 1],
                      [replica |-> 2, vbUUID |-> 43690, seqNo |-> 110, after |-> 2] >>
    /\ Len(published) = 3

\* C10 as the scenario states it: the three events carry 100, 100 and 100.
C10_ScenarioAsStated ==
    S1Delivered =>
        published = << [vbID |-> 42, seqNo |-> 100], [vbID |-> 42, seqNo |-> 100],
                       [vbID |-> 42, seqNo |-> 100] >>

\* C10 amended: in scenario S1 the events after the first and the second
\* callback carry 0, the slots not yet written holding vbUUID 0, and the event
\* after the third carries 100.
C10_ScenarioWarmUp ==
    S1Delivered =>
        published = << [vbID |-> 42, seqNo |-> 0], [vbID |-> 42, seqNo |-> 0],
                       [vbID |-> 42, seqNo |-> 100] >>

\* The three callbacks of S1 have run and the last event is out.
C10_Witness ==
    /\ S1Delivered
    /\ lastEvent = [vbID |-> 42, seqNo |-> 100]
    /\ inflight = EmptyBag
    /\ persistedSeqNos[42][1] = [vbUUID |-> 43690, seqNo |-> 120, absent |-> FALSE]

\* A callback at its last step that stores the vbUUID it was called with.
Storing(c) == c.pc = "publish" /\ c.vbUUID # c.result.vbUUID

\* C11: when a callback of the current generation reports a vbUUID other than
\* the one its observe was issued with, vbUUIDMap[vbID] is the reported vbUUID
\* when the callback ends, and every observe issued for that vbID later in
\* the same generation carries the vbUUID stored last by such a callback.
C11_ExpectedBranchTracking ==
    [][/\ \A c \in BagToSet(inflight) :
            (Storing(c) /\ c.groupID = activeGroupID
                /\ Copies(inflight', c) < Copies(inflight, c))
               => vbUUIDMap'[c.vbID] = c.result.vbUUID
       /\ \A c \in BagToSet(inflight') :
            (Issued(c) /\ c.groupID = activeGroupID
                /\ branch[c.vbID].groupID = activeGroupID)
               => c.vbUUID = branch[c.vbID].vbUUID]_vars

\* The (vbUUID, seqNo) a slot holds.
Held(seqNos, vbID, j) == <<seqNos[vbID][j].vbUUID, seqNos[vbID][j].seqNo>>

\* A callback of generation groupID writes slot (vbID, j) in this step.
WrittenBy(groupID, vbID, j) ==
    \E c \in BagToSet(inflight) :
        /\ c.pc \in {"setSeqNo", "setVbUUID"}
        /\ c.groupID = groupID /\ c.vbID = vbID /\ c.replica = j
        /\ Copies(inflight', c) < Copies(inflight, c)

\* C12: the replica vectors of a generation start all zero, and what a slot
\* holds changes only by a write of a callback issued under that generation.
C12_ReconfigureDrains ==
    [][\A vbID \in vbIds :
          IF mapAlloc' # mapAlloc
          THEN \A j \in DOMAIN persistedSeqNos'[vbID] :
                  Held(persistedSeqNos', vbID, j) = <<0, 0>>
          ELSE \A j \in DOMAIN persistedSeqNos[vbID] :
                  Held(persistedSeqNos', vbID, j) # Held(persistedSeqNos, vbID, j)
                     => WrittenBy(activeGroupID, vbID, j)]_vars

\* VbucketToServer(vbID, j) of the installed snapshot marks the slot absent.
RoutedNowhere(vbID, j) == configSnapshot.route[<<vbID, j>>] \in {RouteInvalid, RouteNegative}

\* C13: when reconfigure completes, every vbID has the slots 0..numReplicas
\* and a slot is absent if and only if VbucketToServer gave ErrInvalidReplica
\* or a negative index for it; with any other routing error reconfigure
\* panics and spawns no Observer.
C13_AbsentMarking ==
    [][\A self \in DOMAIN pc :
          (pc[self] = "swap" /\ pc'[self] # "swap") =>
              IF \E slot \in DOMAIN configSnapshot.route :
                    configSnapshot.route[slot] = RouteError
              THEN pc'[self] = "panic" /\ panicked' /\ observers' = observers
              ELSE /\ pc'[self] # "panic"
                   /\ Len(observers') = Len(observers) + 1
                   /\ \A vbID \in vbIds :
                         /\ DOMAIN persistedSeqNos'[vbID] = 0..configSnapshot.numReplicas
                         /\ \A j \in 0..configSnapshot.numReplicas :
                               persistedSeqNos'[vbID][j].absent <=> RoutedNowhere(vbID, j)]_vars

\* The second reconfigure is done: of two copies one has a negative server
\* index, the other is an invalid replica, both slots are absent.
C13_Witness ==
    /\ activeGroupID = 2
    /\ pc.watch = "wait"
    /\ configSnapshot.numReplicas = 1
    /\ configSnapshot.route[<<42, 0>>] = RouteNegative
    /\ configSnapshot.route[<<42, 1>>] = RouteInvalid
    /\ persistedSeqNos[42][0].absent
    /\ persistedSeqNos[42][1].absent

\* This step is a callback returning on a temporary failure.
TemporaryFailure(c) == last' = [act |-> "CallbackTemporaryFailure", arg |-> c]

\* This step is a callback returning because its replica index is not in the
\* vector it loaded.
NotFound(c) == last' = [act |-> "CallbackNotFound", arg |-> c]

\* The callbacks' arguments: vbID, replica index, generation.
CallbackArgs == { <<c.vbID, c.replica, c.groupID>> : c \in BagToSet(inflight) }

\* Slot (vbID, j) is one the next Range of an Observer visits.
Observable(seqNos, vbID, j) == j \in DOMAIN seqNos[vbID] /\ ~seqNos[vbID][j].absent

C20_ReplicaVectorShape ==
    [][IF mapAlloc' # mapAlloc
       THEN /\ DOMAIN persistedSeqNos' = vbIds
            /\ \A vbID \in vbIds :
                  /\ DOMAIN persistedSeqNos'[vbID] = 0..configSnapshot.numReplicas
                  /\ \A j \in DOMAIN persistedSeqNos'[vbID] :
                        /\ Held(persistedSeqNos', vbID, j) = <<0, 0>>
                        /\ ~RoutedNowhere(vbID, j) => persistedSeqNos'[vbID][j] = ZeroSlot
       ELSE \A vbID \in vbIds :
               DOMAIN persistedSeqNos'[vbID] = DOMAIN persistedSeqNos[vbID]]_vars

\* Generation 2 has one slot per vbID where generation 1 had two: a request
\* for replica 1 is still on its way.
C20_Witness ==
    /\ activeGroupID = 2
    /\ mapAlloc = 2
    /\ configSnapshot.numReplicas = 0
    /\ DOMAIN persistedSeqNos[42] = {0}
    /\ \E c \in BagToSet(inflight) : c.replica = 1 /\ c.groupID = 1

\* C14: getMinSeqNo depends on the slots that are not absent only: whatever
\* an absent slot holds, at position 0 or elsewhere, the result is the same;
\* and it is 0 when every slot is absent.
C14_AbsentNeverContributes ==
    \A vbID \in vbIds :
        MinTaken(vbID) =>
            LET replicas == persistedSeqNos[vbID]
            IN  /\ Present(replicas) = {} => lastEvent.seqNo = 0
                /\ \A i \in DOMAIN replicas \ Present(replicas) :
                      \A slot \in { m \in MinSlots : m.absent } :
                          MinSeqNoOf([replicas EXCEPT ![i] = slot]) = lastEvent.seqNo

\* Slot 0 is absent and holds another vbUUID and a lesser seqNo than the two
\* slots behind it, which agree: the result is their minimum.
C14_Witness ==
    /\ MinTaken(42)
    /\ lastEvent.seqNo = 100
    /\ persistedSeqNos[42] =
          [j \in 0..2 |->
              IF j = 0 THEN [vbUUID |-> 48059, seqNo |-> 0, absent |-> TRUE]
              ELSE IF j = 1 THEN [vbUUID |-> 43690, seqNo |-> 110, absent |-> FALSE]
              ELSE [vbUUID |-> 43690, seqNo |-> 100, absent |-> FALSE]]

\* No goroutine is left that could send on observeCloseDoneCh: every Observer
\* has returned and the config watcher, its ticker stopped, spawns no other.
NobodyToAnswer ==
    /\ LiveObservers = {}
    /\ pc.watch = "wait"
    /\ configWatchTimer = "stopped"

\* C15: a second Stop() after a Stop() that has returned returns too: it is
\* never left waiting on observeCloseDoneCh for a signal nobody can send.
C15_StopIdempotent ==
    ~(/\ pc.main = "againRecvDone"
      /\ observeCloseDoneCh = 0
      /\ NobodyToAnswer)

\* C16: closed, once set, stays set; and once Stop() has returned the
\* generation does not change, the replica vectors are not replaced and no
\* Observer is spawned.
C16_StoppedIsTerminal ==
    [][/\ closed => closed'
       /\ StopReturned =>
             /\ activeGroupID' = activeGroupID
             /\ mapAlloc' = mapAlloc
             /\ Len(observers') = Len(observers)]_vars

\* The goroutine is inside reconfigure().
Reconfiguring(self) == pc[self] \in {"reconfigure", "sendClose", "recvDone", "swap"}

\* C19: reconfigure is never run by two goroutines at once: the config
\* watcher is not in it, nor at its ticker, while Start is in its own.
C19_SerialReconfiguration ==
    /\ ~(Reconfiguring("main") /\ Reconfiguring("watch"))
    /\ (pc.main = "new" \/ Reconfiguring("main")) => pc.watch = "none"

\* The config watcher is inside the reconfigure of generation 2, waiting
\* for the Observer of generation 1 to answer.
C19_Witness ==
    /\ pc.watch = "recvDone"
    /\ pc.main = "started"
    /\ activeGroupID = 1
    /\ Len(observers) = 1

\* What the event of a vBucket is to carry: 0 when no slot is present or two
\* present slots differ in vbUUID, else the least seqNo of the present slots.
ExpectedMin(replicas) ==
    IF Present(replicas) = {} \/ Divergent(replicas) THEN 0 ELSE LeastSeqNo(replicas)

\* Callback c of the current generation takes the step it is at.
Steps(c, at) ==
    /\ c.pc = at
    /\ c.groupID = activeGroupID
    /\ Copies(inflight', c) < Copies(inflight, c)

\* C17: a callback of the current generation with a result writes the seqNo
\* and the vbUUID reported into its own slot and changes no other slot; then
\* it publishes one event for its vbID, with the minimum over the slots as
\* they are then.
C17_CallbackFrame ==
    [][/\ \A c \in BagToSet(inflight) :
            /\ Steps(c, "setSeqNo") =>
                  /\ persistedSeqNos' =
                        [persistedSeqNos EXCEPT ![c.vbID][c.replica].seqNo = c.result.seqNo]
                  /\ UNCHANGED <<published, lastEvent>>
            /\ Steps(c, "setVbUUID") =>
                  /\ persistedSeqNos' =
                        [persistedSeqNos EXCEPT ![c.vbID][c.replica].vbUUID = c.result.vbUUID]
                  /\ UNCHANGED <<published, lastEvent>>
            /\ Steps(c, "publish") =>
                  /\ UNCHANGED persistedSeqNos
                  /\ lastEvent' = [vbID |-> c.vbID,
                                   seqNo |-> ExpectedMin(persistedSeqNos[c.vbID])]
                  /\ recording => published' = Append(published, lastEvent')]_vars

\* Three callbacks have run; the last event carries 110, the least of what
\* the three slots hold, slot 0 holding 120.
C17_Witness ==
    /\ Len(published) = 3
    /\ published[3] = [vbID |-> 42, seqNo |-> 110]
    /\ lastEvent = published[3]
    /\ persistedSeqNos[42][0].seqNo = 120
    /\ ~Divergent(persistedSeqNos[42])

\* C21: with no Stop and no panic, a reconfigure that has started on a
\* goroutine returns in the end, the generation incremented and an Observer
\* of the new generation spawned.
C21_ReconfigureProgress ==
    \A self \in {"main", "watch"}, groupID \in 0..Cardinality(ProgressTopologies) :
       (pc[self] = "reconfigure" /\ activeGroupID = groupID)
          ~> (/\ ~Reconfiguring(self)
              /\ activeGroupID > groupID
              /\ \E i \in DOMAIN observers : observers[i].groupID = groupID + 1)

\* Three generations: the second reconfigure found the first Observer still
\* initialising and left it alone, the third went through the rendezvous
\* with the second Observer.
C21_Witness ==
    /\ activeGroupID = 3
    /\ Len(observers) = 3
    /\ Live(observers[1])
    /\ observers[2].pc = "done"
    /\ pc.watch = "wait"

\* C22: a Stop that has been called once Start has returned returns in the
\* end, also while the config watcher runs reconfigure.
C22_StopTerminates == closed ~> StopReturned

\* Stop has returned while the reconfigure of the config watcher, which sent
\* its close as well, still waits for the done signal: the only Observer took
\* one close, and Stop took its done.
C22_Witness ==
    /\ StopReturned
    /\ pc.watch = "recvDone"
    /\ observeCloseCh = 1
    /\ observeCloseDoneCh = 0
    /\ observers # <<>>
    /\ \A i \in DOMAIN observers : ~Live(observers[i])

\* Callback c publishes its event in this step.
Publishes(c) ==
    /\ c.pc = "publish"
    /\ Copies(inflight', c) < Copies(inflight, c)

\* The Observers of the current generation have not reached their first
\* tick: no request of this generation was issued, so no slot has received a
\* callback of this generation.
NoRequestYet ==
    \A i \in DOMAIN observers :
       observers[i].groupID = activeGroupID => observers[i].pc \in {"init", "newTicker"}

\* C23: while a slot of a vBucket that is not absent has not received a
\* successful callback of the current generation, every event published for
\* that vBucket carries seqNo 0; here for the time no slot has received one.
C23_WarmUpPublishesZero ==
    [][\A c \in BagToSet(inflight) :
          (Publishes(c) /\ NoRequestYet /\ Present(persistedSeqNos[c.vbID]) # {}) =>
             lastEvent'.seqNo = 0]_vars

\* Slot j of vbID holds a seqNo and a vbUUID that one observe result
\* reported together for replica j.
Paired(vbID, j) ==
    \E k \in DOMAIN delivered :
       /\ delivered[k].replica = j
       /\ delivered[k].vbUUID = persistedSeqNos[vbID][j].vbUUID
       /\ delivered[k].seqNo = persistedSeqNos[vbID][j].seqNo

\* C24: a non-zero seqNo published by a callback of the current generation is
\* taken over slots that each hold the seqNo and the vbUUID of one observe
\* result: getMinSeqNo never reads a slot between the two writes of another
\* callback.
C24_NoTornSlotReads ==
    [][\A c \in BagToSet(inflight) :
          (Publishes(c) /\ c.groupID = activeGroupID /\ lastEvent'.seqNo # 0) =>
             \A j \in Present(persistedSeqNos[c.vbID]) : Paired(c.vbID, j)]_vars

\* C25: a slot marked absent holds vbUUID 0 and seqNo 0 in every reachable
\* state: no callback writes into a slot that is absent in the vector it
\* writes to.
C25_AbsentNeverWritten ==
    \A vb \in vbIds : \A j \in DOMAIN persistedSeqNos[vb] :
       persistedSeqNos[vb][j].absent =>
          persistedSeqNos[vb][j].vbUUID = 0 /\ persistedSeqNos[vb][j].seqNo = 0

\* A Ping has failed.
PingFailed(d) == \E k \in DOMAIN d.pings : ~d.pings[k]

\* What a failed Ping leaves: it is the last Ping made, the ticker is
\* stopped, the loop is left, and one signal at most is sent, which nothing
\* holds up.
AfterPingFailed(d) ==
    /\ \A k \in DOMAIN d.pings : d.pings[k] <=> k < Len(d.pings)
    /\ d.healthCheckTicker = "stopped"
    /\ d.health \in {"send", "ended"}
    /\ d.health = "send" => d.signals = 0 /\ d.healCheckFailedCh = 0
    /\ d.health = "ended" => d.signals = 1

\* C26: the first failed Ping stops the health-check ticker, is followed by
\* exactly one signal on healCheckFailedCh and by no other Ping, and there is
\* no signal on that channel otherwise; Start() leaves its select only by
\* taking a signal from stopCh, cancelCh or healCheckFailedCh.
C26_HealthCheckFailureStopsOnce ==
    [][/\ PingFailed(dcp') => AfterPingFailed(dcp')
       /\ ~PingFailed(dcp') => dcp'.signals = 0
       /\ PingFailed(dcp) => dcp'.pings = dcp.pings
       /\ (dcp.start = "select" /\ dcp'.start # "select") =>
             /\ dcp'.start = "returned"
             /\ \E ch \in {"stopCh", "cancelCh", "healCheckFailedCh"} : dcp'[ch] = dcp[ch] - 1
       /\ (dcp.start = "select" /\ dcp.stopCh = 0 /\ dcp.cancelCh = 0
              /\ dcp.healCheckFailedCh = 0) => dcp'.start = "select"]_vars

\* The second Ping failed, its signal was sent, and Start() returned by
\* taking it: there was no other signal.
C26_Witness ==
    /\ dcp.pings = <<TRUE, FALSE>>
    /\ dcp.health = "ended"
    /\ dcp.signals = 1
    /\ dcp.healCheckFailedCh = 0
    /\ dcp.stopCh = 0
    /\ dcp.cancelCh = 0
    /\ dcp.start = "returned"

=============================================================================
